---- MODULE Spec2Model ----
(***************************************************************************)
(* A model of the sparse merkle tree of src/src/tree.rs: the tree's root   *)
(* and node store, update / get / merkle_proof / the ICS-23 generators /   *)
(* validate, over the bit-string keys of src/src/internal_key.rs and the   *)
(* digests of src/src/merge.rs.                                            *)
(*                                                                         *)
(* Digests are terms of a free algebra, so the hash is collision free:     *)
(*   <<>>                 the zero digest,                                 *)
(*   <<"leaf", key, v>>   hash(0^32 | key | value),                        *)
(*   <<"node", l, r>>     hash(l | r).                                     *)
(***************************************************************************)
EXTENDS Integers, Sequences, FiniteSets, TLC

(***************************************************************************)
(* Bounds of the model.                                                    *)
(***************************************************************************)
\* width of a key in bytes (the const generic N of the tree)
N == 1
\* number of non-zero values the operations draw from
NumValues == 2
\* number of updates in a run
MaxOps == 3
\* width in bytes of the keys of the wide tree: more than TREE_HEIGHT bits
WideN == 33
\* number of updates in a run of the wide tree
MaxWideOps == 2
\* width in bytes of the keys handed to copy_bits on its own
BitsN == 3
\* width in bytes of the keys handed to fork_height and parent_path on their own
ForkN == 2
\* width in bytes of the padded keys
PadN == 2
\* number of store operations an update may be given: more than any update needs
MaxStoreOps == 12

BYTE_SIZE == 8

Max(a, b) == IF a > b THEN a ELSE b
Min(a, b) == IF a < b THEN a ELSE b

\* 1 << i for a bit position i of a byte
Pow2(i) == <<1, 2, 4, 8, 16, 32, 64, 128>>[i + 1]

(***************************************************************************)
(* InternalKey<N>: an array of N bytes, index 1 is the code's index 0.     *)
(***************************************************************************)
\* the array with the elements of the function f on 1..n
Array(f) == f \o <<>>

KeyZero(n) == Array([j \in 1..n |-> 0])

max_index(key) == Len(key) - 1

\* a key that repeats one byte, as the tests' [i; 29]
KeyOf(b) == Array([j \in 1..N |-> b])

\* the keys the operations draw from: for N = 1 two pairs of neighbours
\* (they differ in bit 0 only), one pair on each side of the top bit
Keys == { KeyOf(0), KeyOf(1), KeyOf(128), KeyOf(129) }

ValueZero == 0

Values == 0..NumValues

get_bit(key, i) ==
    LET byte_pos == max_index(key) - (i \div BYTE_SIZE)
        bit_pos == i % BYTE_SIZE
    IN ((key[byte_pos + 1] \div Pow2(bit_pos)) % 2) # 0

set_bit(key, i) ==
    LET byte_pos == max_index(key) - (i \div BYTE_SIZE)
        bit_pos == i % BYTE_SIZE
    IN IF get_bit(key, i) THEN key
       ELSE [key EXCEPT ![byte_pos + 1] = @ + Pow2(bit_pos)]

clear_bit(key, i) ==
    LET byte_pos == max_index(key) - (i \div BYTE_SIZE)
        bit_pos == i % BYTE_SIZE
    IN IF get_bit(key, i) THEN [key EXCEPT ![byte_pos + 1] = @ - Pow2(bit_pos)]
       ELSE key

\* the first bit, from the lowest up, in which the keys differ; 0 if none
fork_height_from_below(a, b) ==
    LET differ == { h \in 0..(BYTE_SIZE * Len(a) - 1) : get_bit(a, h) # get_bit(b, h) }
    IN IF differ = {} THEN 0
       ELSE CHOOSE h \in differ : \A g \in differ : h <= g

\* the first bit, from the highest down, in which the keys differ; 0 if none
fork_height(a, b) ==
    LET differ == { h \in 0..(BYTE_SIZE * Len(a) - 1) : get_bit(a, h) # get_bit(b, h) }
    IN IF differ = {} THEN 0
       ELSE CHOOSE h \in differ : \A g \in differ : g <= h

\* the loop that sets every bit of lo..hi-1, set in key or not
RECURSIVE copy_remain_bits_set_all(_, _, _, _)
copy_remain_bits_set_all(key, target, lo, hi) ==
    IF lo >= hi THEN target
    ELSE copy_remain_bits_set_all(key, set_bit(target, lo), lo + 1, hi)

\* the closing loop of copy_bits: set in target the bits of key set in lo..hi-1
RECURSIVE copy_remain_bits(_, _, _, _)
copy_remain_bits(key, target, lo, hi) ==
    IF lo >= hi THEN target
    ELSE copy_remain_bits(key,
                          IF get_bit(key, lo) THEN set_bit(target, lo) ELSE target,
                          lo + 1, hi)

\* copy_bits(start..end), end exclusive
copy_bits(key, start, end0) ==
    LET array_size == Len(key)
        max == 8 * array_size
        end == IF end0 > max THEN max ELSE end0
        remain == IF start % BYTE_SIZE # 0 THEN 1 ELSE 0
        end_byte == array_size - (start \div BYTE_SIZE) - remain
        start_byte == array_size - (end \div BYTE_SIZE)
        copied == IF start_byte < array_size /\ start_byte <= end_byte
                  THEN Array([j \in 1..array_size |->
                                IF start_byte < j /\ j <= end_byte THEN key[j] ELSE 0])
                  ELSE KeyZero(array_size)
        first == copy_remain_bits(key, copied, start,
                                  Min((array_size - end_byte) * BYTE_SIZE, end))
    IN IF start >= max THEN KeyZero(array_size)
       ELSE copy_remain_bits(key, first,
                             Max((array_size - start_byte) * BYTE_SIZE, start), end)

parent_path(key, height) == copy_bits(key, height + 1, 8 * Len(key))

\* the derived Ord of [u8; N]: lexicographic on the bytes
RECURSIVE key_less_from(_, _, _)
key_less_from(a, b, j) ==
    IF j > Len(a) THEN FALSE
    ELSE IF a[j] # b[j] THEN a[j] < b[j]
    ELSE key_less_from(a, b, j + 1)

key_less(a, b) == key_less_from(a, b, 1)

(***************************************************************************)
(* Digests: merge and hash_leaf.                                           *)
(***************************************************************************)
H256Zero == <<>>

is_zero(h) == h = H256Zero

merge(lhs, rhs) ==
    IF is_zero(lhs) THEN rhs
    ELSE IF is_zero(rhs) THEN lhs
    ELSE <<"node", lhs, rhs>>

\* hash_leaf without the zero-value case: a deleted key keeps a digest
hash_leaf_no_zero(key, value) == <<"leaf", key, value>>

hash_leaf(key, value) ==
    IF value = ValueZero THEN H256Zero
    ELSE <<"leaf", key, value>>

(***************************************************************************)
(* Result<T, Error>                                                        *)
(***************************************************************************)
Ok(x) == [ok |-> TRUE, val |-> x]

Err(e) == [ok |-> FALSE, err |-> e]

(***************************************************************************)
(* The node store (DefaultStore): two maps keyed by digest.                *)
(***************************************************************************)
EmptyMap == <<>>

MapHas(m, d) == d \in DOMAIN m

MapInsert(m, d, x) == [e \in DOMAIN m \cup {d} |-> IF e = d THEN x ELSE m[e]]

MapRemove(m, d) ==
    IF DOMAIN m \subseteq {d} THEN EmptyMap
    ELSE [e \in DOMAIN m \ {d} |-> m[e]]

BranchNode(fh, key, node, sibling) ==
    [fork_height |-> fh, key |-> key, node |-> node, sibling |-> sibling]

LeafNode(key, value) == [key |-> key, value |-> value]

\* BranchNode::branch: (left, right) at the given height
branch(b, height) ==
    IF get_bit(b.key, height)
    THEN [left |-> b.sibling, right |-> b.node]
    ELSE [left |-> b.node, right |-> b.sibling]

Tree(r, bm, lm) == [root |-> r, branches_map |-> bm, leaves_map |-> lm]

\* SparseMerkleTree::default()
EmptyTree == Tree(H256Zero, EmptyMap, EmptyMap)

(***************************************************************************)
(* update: the walk from the root to the leaf.  w is the state of the      *)
(* loop: the current node, the height, the path collected so far and the   *)
(* branch map, from which the branches on the way are removed.             *)
(***************************************************************************)
\* the height of the stored branch, not recomputed against the new key
update_height_stale(bm, node, key, height) ==
    IF MapHas(bm, node) THEN bm[node].fork_height ELSE height

update_height(bm, node, key, height) ==
    IF MapHas(bm, node)
    THEN Max(fork_height(key, bm[node].key), bm[node].fork_height)
    ELSE height

RECURSIVE update_walk(_, _)
update_walk(w, key) ==
    IF ~MapHas(w.bm, w.node) THEN w
    ELSE
      LET branch_node == w.bm[w.node]
          fh == Max(fork_height(key, branch_node.key), branch_node.fork_height)
          bm1 == IF branch_node.fork_height > 0
                 THEN MapRemove(w.bm, w.node) ELSE w.bm
          lr == branch(branch_node, w.height)
          is_right == get_bit(key, w.height)
          next == IF is_right THEN lr.right ELSE lr.left
          sibling == IF is_right THEN lr.left ELSE lr.right
      IN IF w.height > branch_node.fork_height
         THEN [w EXCEPT !.path = MapInsert(w.path, fh, w.node)]
         ELSE IF w.node = next
         THEN [w EXCEPT !.bm = bm1]
         ELSE update_walk([node |-> next,
                           height |-> update_height(bm1, next, key, w.height),
                           path |-> MapInsert(w.path, w.height, sibling),
                           bm |-> bm1], key)

\* the recomputation that stores no branch for the parents it computes
RECURSIVE update_rebuild_no_insert(_, _, _, _)
update_rebuild_no_insert(path, node, bm, key) ==
    IF DOMAIN path = {} THEN [node |-> node, bm |-> bm]
    ELSE
      LET height == CHOOSE h \in DOMAIN path : \A g \in DOMAIN path : h <= g
          sibling == path[height]
          parent == IF get_bit(key, height) THEN merge(sibling, node)
                    ELSE merge(node, sibling)
      IN update_rebuild_no_insert(MapRemove(path, height), parent, bm, key)

\* the recomputation that leaves the siblings out: the parent is the node
RECURSIVE update_rebuild_no_sibling(_, _, _, _)
update_rebuild_no_sibling(path, node, bm, key) ==
    IF DOMAIN path = {} THEN [node |-> node, bm |-> bm]
    ELSE
      LET height == CHOOSE h \in DOMAIN path : \A g \in DOMAIN path : h <= g
          sibling == path[height]
          bm1 == IF ~is_zero(node)
                 THEN MapInsert(bm, node, BranchNode(height, key, node, sibling))
                 ELSE bm
      IN update_rebuild_no_sibling(MapRemove(path, height), node, bm1, key)

\* update: "recompute the tree from top to bottom", lowest height first
RECURSIVE update_rebuild(_, _, _, _)
update_rebuild(path, node, bm, key) ==
    IF DOMAIN path = {} THEN [node |-> node, bm |-> bm]
    ELSE
      LET height == CHOOSE h \in DOMAIN path : \A g \in DOMAIN path : h <= g
          sibling == path[height]
          parent == IF get_bit(key, height) THEN merge(sibling, node)
                    ELSE merge(node, sibling)
          bm1 == IF ~is_zero(node)
                 THEN MapInsert(bm, parent, BranchNode(height, key, node, sibling))
                 ELSE bm
      IN update_rebuild(MapRemove(path, height), parent, bm1, key)

\* update that stores the new leaf and its branch also when the leaf is zero
update_store_zero_leaf(t, key, value) ==
    LET w == update_walk([node |-> t.root,
                          height |-> update_height(t.branches_map, t.root, key, 0),
                          path |-> EmptyMap,
                          bm |-> t.branches_map], key)
        old == MapHas(t.leaves_map, w.node) /\ t.leaves_map[w.node].key = key
        lm1 == IF old THEN MapRemove(t.leaves_map, w.node) ELSE t.leaves_map
        bm1 == IF old THEN MapRemove(w.bm, w.node) ELSE w.bm
        node == hash_leaf(key, value)
        lm2 == MapInsert(lm1, node, LeafNode(key, value))
        bm2 == MapInsert(bm1, node, BranchNode(0, key, node, H256Zero))
        up == update_rebuild(w.path, node, bm2, key)
    IN Tree(up.node, up.bm, lm2)

\* update that leaves the previous leaf of the key in the leaf map
update_keep_old_leaf(t, key, value) ==
    LET w == update_walk([node |-> t.root,
                          height |-> update_height(t.branches_map, t.root, key, 0),
                          path |-> EmptyMap,
                          bm |-> t.branches_map], key)
        old == MapHas(t.leaves_map, w.node) /\ t.leaves_map[w.node].key = key
        bm1 == IF old THEN MapRemove(w.bm, w.node) ELSE w.bm
        node == hash_leaf(key, value)
        lm2 == IF ~is_zero(node)
               THEN MapInsert(t.leaves_map, node, LeafNode(key, value))
               ELSE t.leaves_map
        bm2 == IF ~is_zero(node)
               THEN MapInsert(bm1, node, BranchNode(0, key, node, H256Zero))
               ELSE bm1
        up == update_rebuild(w.path, node, bm2, key)
    IN Tree(up.node, up.bm, lm2)

update(t, key, value) ==
    LET w == update_walk([node |-> t.root,
                          height |-> update_height(t.branches_map, t.root, key, 0),
                          path |-> EmptyMap,
                          bm |-> t.branches_map], key)
        old == MapHas(t.leaves_map, w.node) /\ t.leaves_map[w.node].key = key
        lm1 == IF old THEN MapRemove(t.leaves_map, w.node) ELSE t.leaves_map
        bm1 == IF old THEN MapRemove(w.bm, w.node) ELSE w.bm
        node == hash_leaf(key, value)
        lm2 == IF ~is_zero(node) THEN MapInsert(lm1, node, LeafNode(key, value))
               ELSE lm1
        bm2 == IF ~is_zero(node)
               THEN MapInsert(bm1, node, BranchNode(0, key, node, H256Zero))
               ELSE bm1
        up == update_rebuild(w.path, node, bm2, key)
    IN Tree(up.node, up.bm, lm2)

(***************************************************************************)
(* update over a store that may fail.  Every operation of the Store trait  *)
(* returns a Result, and update leaves with the error of the first one     *)
(* that fails (the ? after each call).  st is the store with the number of *)
(* operations that still succeed, and st.err holds once one has failed.    *)
(***************************************************************************)
Store(bm, lm, left) == [bm |-> bm, lm |-> lm, left |-> left, err |-> FALSE]

\* one call of the store: it fails when no operation is left
store_call(st) ==
    IF st.err THEN st
    ELSE IF st.left = 0 THEN [st EXCEPT !.err = TRUE]
    ELSE [st EXCEPT !.left = @ - 1]

\* the change of a call that has succeeded
insert_branch_done(st, node, b) ==
    IF st.err THEN st ELSE [st EXCEPT !.bm = MapInsert(@, node, b)]

remove_branch_done(st, node) ==
    IF st.err THEN st ELSE [st EXCEPT !.bm = MapRemove(@, node)]

insert_leaf_done(st, leaf_hash, leaf) ==
    IF st.err THEN st ELSE [st EXCEPT !.lm = MapInsert(@, leaf_hash, leaf)]

remove_leaf_done(st, leaf_hash) ==
    IF st.err THEN st ELSE [st EXCEPT !.lm = MapRemove(@, leaf_hash)]

get_branch(st) == store_call(st)

get_leaf(st) == store_call(st)

insert_branch(st, node, b) == insert_branch_done(store_call(st), node, b)

remove_branch(st, node) == remove_branch_done(store_call(st), node)

insert_leaf(st, leaf_hash, leaf) == insert_leaf_done(store_call(st), leaf_hash, leaf)

remove_leaf(st, leaf_hash) == remove_leaf_done(store_call(st), leaf_hash)

\* the walk of update, w.st being the store
RECURSIVE store_walk(_, _)
RECURSIVE store_walk_down(_, _, _, _, _)
RECURSIVE store_walk_next(_, _, _, _, _)
store_walk(w, key) ==
    IF w.st.err \/ ~MapHas(w.st.bm, w.node) THEN w
    ELSE
      LET branch_node == w.st.bm[w.node]
          fh == Max(fork_height(key, branch_node.key), branch_node.fork_height)
          lr == branch(branch_node, w.height)
          is_right == get_bit(key, w.height)
          next == IF is_right THEN lr.right ELSE lr.left
          sibling == IF is_right THEN lr.left ELSE lr.right
      IN IF w.height > branch_node.fork_height
         THEN [w EXCEPT !.path = MapInsert(w.path, fh, w.node)]
         ELSE store_walk_down(w, key, next, sibling,
                              IF branch_node.fork_height > 0
                              THEN remove_branch(w.st, w.node) ELSE w.st)

\* the walk after the removal of the branch of the node: st1 is the store
store_walk_down(w, key, next, sibling, st1) ==
    IF st1.err \/ w.node = next THEN [w EXCEPT !.st = st1]
    ELSE store_walk_next(w, key, next, sibling, get_branch(st1))

\* the walk after the read of the next branch: st2 is the store
store_walk_next(w, key, next, sibling, st2) ==
    store_walk([node |-> next,
                height |-> IF st2.err THEN w.height
                           ELSE update_height(st2.bm, next, key, w.height),
                path |-> MapInsert(w.path, w.height, sibling),
                st |-> st2], key)

\* the recomputation of update over the store
RECURSIVE store_rebuild(_, _, _, _)
store_rebuild(path, node, st, key) ==
    IF st.err \/ DOMAIN path = {} THEN [node |-> node, st |-> st]
    ELSE
      LET height == CHOOSE h \in DOMAIN path : \A g \in DOMAIN path : h <= g
          sibling == path[height]
          parent == IF get_bit(key, height) THEN merge(sibling, node)
                    ELSE merge(node, sibling)
      IN store_rebuild(MapRemove(path, height), parent,
                       IF ~is_zero(node)
                       THEN insert_branch(st, parent,
                                          BranchNode(height, key, node, sibling))
                       ELSE st,
                       key)

\* update after the walk has ended at w.node: the previous leaf is deleted
store_delete_leaf(w, key, st) ==
    IF ~st.err /\ MapHas(st.lm, w.node) /\ st.lm[w.node].key = key
    THEN remove_branch(remove_leaf(st, w.node), w.node)
    ELSE st

\* the new leaf and its branch are stored
store_new_leaf(st, key, value, node) ==
    IF ~is_zero(node)
    THEN insert_branch(insert_leaf(st, node, LeafNode(key, value)),
                       node, BranchNode(0, key, node, H256Zero))
    ELSE st

store_update_end(w, key, value) ==
    store_rebuild(w.path, hash_leaf(key, value),
                  store_new_leaf(store_delete_leaf(w, key, get_leaf(w.st)),
                                 key, value, hash_leaf(key, value)),
                  key)

\* update up to the assignment of the root: the last node and the store
store_update(t, key, value, st) ==
    store_update_end(store_walk([node |-> t.root,
                                 height |-> IF st.err THEN 0
                                            ELSE update_height(st.bm, t.root, key, 0),
                                 path |-> EmptyMap,
                                 st |-> st], key),
                     key, value)

\* update that assigns the root it has computed so far, error or not
update_root_first(t, up) ==
    [tree |-> Tree(up.node, up.st.bm, up.st.lm),
     result |-> IF up.st.err THEN Err("Store") ELSE Ok(up.node)]

\* the end of update: self.root = node and Ok(&self.root), unless a store
\* operation has returned its error before
update_root(t, up) ==
    IF up.st.err
    THEN [tree |-> Tree(t.root, up.st.bm, up.st.lm), result |-> Err("Store")]
    ELSE [tree |-> Tree(up.node, up.st.bm, up.st.lm), result |-> Ok(up.node)]

\* update over a store of which the first `left` operations succeed
update_over_store(t, key, value, left) ==
    update_root(t, store_update(t, key, value,
                                get_branch(Store(t.branches_map, t.leaves_map, left))))

(***************************************************************************)
(* get                                                                     *)
(***************************************************************************)
RECURSIVE get_walk(_, _, _)
get_walk(t, key, node) ==
    IF is_zero(node) \/ ~MapHas(t.branches_map, node) THEN node
    ELSE
      LET branch_node == t.branches_map[node]
          lr == branch(branch_node, branch_node.fork_height)
          next == IF get_bit(key, branch_node.fork_height) THEN lr.right ELSE lr.left
      IN IF branch_node.fork_height = 0 THEN next
         ELSE get_walk(t, key, next)

\* get without the comparison of the leaf's key with the key asked for
get_any_leaf(t, key) ==
    LET node == get_walk(t, key, t.root)
    IN IF is_zero(node) THEN ValueZero
       ELSE IF MapHas(t.leaves_map, node) THEN t.leaves_map[node].value
       ELSE ValueZero

get(t, key) ==
    LET node == get_walk(t, key, t.root)
    IN IF is_zero(node) THEN ValueZero
       ELSE IF MapHas(t.leaves_map, node) /\ t.leaves_map[node].key = key
       THEN t.leaves_map[node].value
       ELSE ValueZero


(***************************************************************************)
(* fetch_merkle_path: the siblings on the way from the root to key, into   *)
(* cache: (height, key of the sibling's subtree) -> digest.                *)
(***************************************************************************)
\* the key of a sibling on the right without its bit set
sibling_key_of_unmarked(key, at, marked, is_right) == parent_path(key, at)

sibling_key_of(key, at, marked, is_right) ==
    IF is_right THEN parent_path(key, at)
    ELSE set_bit(parent_path(key, at), marked)

\* BTreeMap::entry(k).or_insert(v)
MapOrInsert(m, d, x) == IF MapHas(m, d) THEN m ELSE MapInsert(m, d, x)

RECURSIVE fetch_walk(_, _, _, _, _)
fetch_walk(t, key, node, height, cache) ==
    IF is_zero(node) \/ ~MapHas(t.branches_map, node) THEN cache
    ELSE
      LET branch_node == t.branches_map[node]
          fh == Max(fork_height(key, branch_node.key), branch_node.fork_height)
          lr == branch(branch_node, height)
          is_right == get_bit(key, height)
          next == IF is_right THEN lr.right ELSE lr.left
          sibling == IF is_right THEN lr.left ELSE lr.right
      IN IF height > branch_node.fork_height
         THEN MapOrInsert(cache,
                          <<fh, sibling_key_of(key, fh, height, get_bit(key, fh))>>,
                          node)
         ELSE IF node = next THEN cache
         ELSE fetch_walk(t, key, next,
                         update_height(t.branches_map, next, key, height),
                         MapInsert(cache,
                                   <<height, sibling_key_of(key, height, height, is_right)>>,
                                   sibling))

fetch_merkle_path(t, key, cache) ==
    fetch_walk(t, key, t.root,
               update_height(t.branches_map, t.root, key, 0), cache)

(***************************************************************************)
(* merkle_proof                                                            *)
(***************************************************************************)
\* keys.sort_unstable_by_key(|k| **k): insertion into a sorted list
RECURSIVE sort_insert(_, _)
sort_insert(sorted, key) ==
    IF sorted = <<>> THEN <<key>>
    ELSE IF key_less(key, Head(sorted)) THEN <<key>> \o sorted
    ELSE <<Head(sorted)>> \o sort_insert(Tail(sorted), key)

RECURSIVE sort_keys(_)
sort_keys(keys) ==
    IF keys = <<>> THEN <<>>
    ELSE sort_insert(sort_keys(Tail(keys)), Head(keys))

RECURSIVE fetch_all(_, _, _)
fetch_all(t, keys, cache) ==
    IF keys = <<>> THEN cache
    ELSE fetch_all(t, Tail(keys), fetch_merkle_path(t, Head(keys), cache))

MerkleProof(leaves_path, proof) == [leaves_path |-> leaves_path, proof |-> proof]

QueueItem(key, height, leaf_index) ==
    [key |-> key, height |-> height, leaf_index |-> leaf_index]

\* the push that records the height above the one it is given
push_height_above(leaves_path, leaf_index, height) ==
    [leaves_path EXCEPT ![leaf_index] = Append(@, height + 1)]

push_height(leaves_path, leaf_index, height) ==
    [leaves_path EXCEPT ![leaf_index] = Append(@, height)]

\* the turn that never meets the sibling at the front of the queue
proof_step_alone(q) ==
    IF q.done \/ q.queue = <<>> THEN [q EXCEPT !.done = TRUE]
    ELSE
      LET item == Head(q.queue)
          key == item.key
          height == item.height
          leaf_index == item.leaf_index
          rest == Tail(q.queue)
      IN IF (rest = <<>> /\ DOMAIN q.cache = {}) \/ height = 8 * Len(key)
         THEN IF q.leaves_path[leaf_index] = <<>>
              THEN [q EXCEPT !.done = TRUE,
                             !.queue = rest,
                             !.leaves_path = push_height(@, leaf_index,
                                                         8 * Len(key) - 1)]
              ELSE [q EXCEPT !.done = TRUE, !.queue = rest]
         ELSE
           LET is_right == get_bit(key, height)
               sibling_key == IF is_right
                              THEN clear_bit(parent_path(key, height), height)
                              ELSE set_bit(parent_path(key, height), height)
               front_is_sibling == FALSE
               parent_key == IF is_right THEN sibling_key ELSE key
           IN IF front_is_sibling
              THEN [q EXCEPT
                      !.queue = Append(Tail(rest),
                                       QueueItem(parent_key, height + 1, leaf_index)),
                      !.leaves_path =
                          push_height(push_height(@, Head(rest).leaf_index, height),
                                      leaf_index, height)]
              ELSE IF MapHas(q.cache, <<height, sibling_key>>)
              THEN [q EXCEPT
                      !.queue = Append(rest,
                                       QueueItem(parent_key, height + 1, leaf_index)),
                      !.cache = MapRemove(@, <<height, sibling_key>>),
                      !.proof = Append(@, <<q.cache[<<height, sibling_key>>], height>>),
                      !.leaves_path = push_height(@, leaf_index, height)]
              ELSE [q EXCEPT
                      !.queue = Append(rest,
                                       QueueItem(clear_bit(sibling_key, height),
                                                 height + 1, leaf_index))]

\* the turn of an entry that is neither the last one nor at the top, once
\* sibling_key has been computed
pair_or_lift(q, sibling_key) ==
    LET item == Head(q.queue)
        key == item.key
        height == item.height
        leaf_index == item.leaf_index
        rest == Tail(q.queue)
        front_is_sibling == /\ rest # <<>>
                            /\ Head(rest).key = sibling_key
                            /\ Head(rest).height = height
        parent_key == IF get_bit(key, height) THEN sibling_key ELSE key
    IN IF front_is_sibling
       THEN [q EXCEPT
               !.queue = Append(Tail(rest),
                                QueueItem(parent_key, height + 1, leaf_index)),
               !.leaves_path =
                   push_height(push_height(@, Head(rest).leaf_index, height),
                               leaf_index, height)]
       ELSE IF MapHas(q.cache, <<height, sibling_key>>)
       THEN [q EXCEPT
               !.queue = Append(rest,
                                QueueItem(parent_key, height + 1, leaf_index)),
               !.cache = MapRemove(@, <<height, sibling_key>>),
               !.proof = Append(@, <<q.cache[<<height, sibling_key>>], height>>),
               !.leaves_path = push_height(@, leaf_index, height)]
       ELSE [q EXCEPT
               !.queue = Append(rest,
                                QueueItem(clear_bit(sibling_key, height),
                                          height + 1, leaf_index))]

\* one turn of the loop over the queue; q is the state of the loop, and
\* q.done holds once the loop has ended (the queue is empty, or a break)
proof_step(q) ==
    IF q.done \/ q.queue = <<>> THEN [q EXCEPT !.done = TRUE]
    ELSE
      LET item == Head(q.queue)
          key == item.key
          height == item.height
          leaf_index == item.leaf_index
          rest == Tail(q.queue)
      IN IF (rest = <<>> /\ DOMAIN q.cache = {}) \/ height = 8 * Len(key)
         THEN IF q.leaves_path[leaf_index] = <<>>
              THEN [q EXCEPT !.done = TRUE,
                             !.queue = rest,
                             !.leaves_path = push_height(@, leaf_index,
                                                         8 * Len(key) - 1)]
              ELSE [q EXCEPT !.done = TRUE, !.queue = rest]
         ELSE
           LET sibling_keys ==
                 { IF get_bit(key, height)
                   THEN clear_bit(parent_path(key, height), height)
                   ELSE set_bit(parent_path(key, height), height) }
           IN CHOOSE next \in { pair_or_lift(q, sibling_key) :
                                   sibling_key \in sibling_keys } : TRUE

\* the loop over the queue: at most n turns, as two halves.  A turn raises
\* the height of one entry or ends the loop, so the loop has ended after
\* one turn more than (8 * N + 1) turns for each key.
RECURSIVE proof_loop(_, _)
proof_loop(q, n) ==
    IF n <= 1 THEN proof_step(q)
    ELSE LET half == proof_loop(q, n \div 2)
         IN IF half.done THEN half ELSE proof_loop(half, n - n \div 2)

\* the MerkleProof whose entries are in the reverse order, top-down
proof_of_top_down(q) ==
    Ok(MerkleProof(q.leaves_path,
                   [i \in 1..Len(q.proof) |-> q.proof[Len(q.proof) - i + 1]]))

\* the MerkleProof built from the state the loop has ended in
proof_of(q) == Ok(MerkleProof(q.leaves_path, q.proof))

\* the state of the loop of merkle_proof before its first turn
first_turn(t, sorted) ==
    [queue |-> [i \in 1..Len(sorted) |-> QueueItem(sorted[i], 0, i)],
     cache |-> fetch_all(t, sorted, EmptyMap),
     proof |-> <<>>,
     leaves_path |-> [i \in 1..Len(sorted) |-> <<>>],
     done |-> FALSE]

\* merkle_proof without the rejection of an empty list: the loop over no
\* key builds the proof of no leaf
merkle_proof_of_no_keys(t, keys) ==
    IF keys = <<>> THEN Ok(MerkleProof(<<>>, <<>>))
    ELSE
      LET sorted == sort_keys(keys)
      IN proof_of(proof_loop(
                    [queue |-> [i \in 1..Len(sorted) |-> QueueItem(sorted[i], 0, i)],
                     cache |-> fetch_all(t, sorted, EmptyMap),
                     proof |-> <<>>,
                     leaves_path |-> [i \in 1..Len(sorted) |-> <<>>],
                     done |-> FALSE],
                    Len(sorted) * (8 * Len(sorted[1]) + 1) + 1))

merkle_proof(t, keys) ==
    IF keys = <<>> THEN Err("EmptyKeys")
    ELSE
      LET sorted == sort_keys(keys)
      IN proof_of(proof_loop(
                    [queue |-> [i \in 1..Len(sorted) |-> QueueItem(sorted[i], 0, i)],
                     cache |-> fetch_all(t, sorted, EmptyMap),
                     proof |-> <<>>,
                     leaves_path |-> [i \in 1..Len(sorted) |-> <<>>],
                     done |-> FALSE],
                    Len(sorted) * (8 * Len(sorted[1]) + 1) + 1))

(***************************************************************************)
(* MerkleProof::compute_root and verify.  Leaves are pairs <<key, value>>. *)
(* The verifier replays the schedule of merkle_proof on a buffer           *)
(* (height, key) -> (leaf index, digest), lowest (height, key) first.      *)
(***************************************************************************)
RECURSIVE sort_leaf_insert(_, _)
sort_leaf_insert(sorted, leaf) ==
    IF sorted = <<>> THEN <<leaf>>
    ELSE IF key_less(leaf[1], Head(sorted)[1]) THEN <<leaf>> \o sorted
    ELSE <<Head(sorted)>> \o sort_leaf_insert(Tail(sorted), leaf)

RECURSIVE sort_leaves(_)
sort_leaves(leaves) ==
    IF leaves = <<>> THEN <<>>
    ELSE sort_leaf_insert(sort_leaves(Tail(leaves)), Head(leaves))

\* the order of BTreeMap<(usize, InternalKey), _>
pos_less(a, b) == a[1] < b[1] \/ (a[1] = b[1] /\ key_less(a[2], b[2]))

first_pos(buf) == CHOOSE a \in DOMAIN buf : \A b \in DOMAIN buf : a = b \/ pos_less(a, b)

RECURSIVE root_loop(_)
root_loop(c) ==
    IF DOMAIN c.tree_buf = {} THEN Err("CorruptedProof")
    ELSE
      LET pos == first_pos(c.tree_buf)
          height == pos[1]
          key == pos[2]
          leaf_index == c.tree_buf[pos].leaf_index
          node == c.tree_buf[pos].node
          buf == MapRemove(c.tree_buf, pos)
      IN IF c.proof = <<>> /\ DOMAIN buf = {} THEN Ok(node)
         ELSE IF height = 8 * Len(key)
         THEN IF c.proof # <<>> THEN Err("CorruptedProof") ELSE Ok(node)
         ELSE
           LET is_right == get_bit(key, height)
               sibling_key == IF is_right THEN parent_path(key, height)
                              ELSE set_bit(parent_path(key, height), height)
               path == c.leaves_path[leaf_index]
               merge_height == IF path # <<>> THEN Head(path) ELSE height
               merged(sibling, at) ==
                   IF get_bit(key, at) THEN merge(sibling, node)
                   ELSE merge(node, sibling)
               step(sibling, at, proof, buf2) ==
                   root_loop([tree_buf |-> MapInsert(buf2, <<at + 1, parent_path(key, at)>>,
                                                     [leaf_index |-> leaf_index,
                                                      node |-> merged(sibling, at)]),
                              proof |-> proof,
                              leaves_path |-> [c.leaves_path EXCEPT
                                                 ![leaf_index] =
                                                    IF @ = <<>> THEN @ ELSE Tail(@)]])
           IN IF DOMAIN buf # {} /\ first_pos(buf) = <<height, sibling_key>>
              THEN step(buf[<<height, sibling_key>>].node, height, c.proof,
                        MapRemove(buf, <<height, sibling_key>>))
              ELSE IF height # merge_height
              THEN IF merge_height < height \/ merge_height >= 8 * Len(key)
                   THEN Err("CorruptedProof")
                   ELSE root_loop([c EXCEPT
                          !.tree_buf =
                             MapInsert(buf,
                                       <<merge_height, copy_bits(key, merge_height, 8 * Len(key))>>,
                                       [leaf_index |-> leaf_index, node |-> node])])
              ELSE IF c.proof = <<>> THEN Err("CorruptedProof")
              ELSE IF Head(c.proof)[2] < height \/ Head(c.proof)[2] >= 8 * Len(key)
              THEN Err("CorruptedProof")
              ELSE step(Head(c.proof)[1], Head(c.proof)[2], Tail(c.proof), buf)

compute_root(mp, leaves) ==
    IF Len(leaves) # Len(mp.leaves_path) THEN Err("IncorrectNumberOfLeaves")
    ELSE
      LET sorted == sort_leaves(leaves)
      IN root_loop(
           [tree_buf |-> [pos \in { <<0, sorted[i][1]>> : i \in 1..Len(sorted) } |->
                            LET i == CHOOSE j \in 1..Len(sorted) : sorted[j][1] = pos[2]
                            IN [leaf_index |-> i,
                                node |-> hash_leaf(sorted[i][1], sorted[i][2])]],
            proof |-> mp.proof,
            leaves_path |-> mp.leaves_path])

verify(mp, r, leaves) ==
    LET res == compute_root(mp, leaves)
    IN IF res.ok THEN Ok(res.val = r) ELSE res

(***************************************************************************)
(* proof_ics23: convert a single-leaf merkle proof to an ExistenceProof.   *)
(***************************************************************************)
TREE_HEIGHT == 256

HashOp == "Sha256"

EmptyVec == <<"vec">>

\* H256::as_slice().to_vec()
ToVec(h) == <<"vec", h>>

get_leaf_op(hash_op) ==
    [hash |-> hash_op, prehash_key |-> "NoHash", prehash_value |-> "NoHash",
     length |-> "NoPrefix", prefix |-> ToVec(H256Zero)]

\* the InnerOp with the sibling on the other side
get_inner_op_swapped(hash_op, sibling, is_right_node) ==
    IF is_right_node
    THEN [hash |-> hash_op, prefix |-> EmptyVec, suffix |-> ToVec(sibling)]
    ELSE [hash |-> hash_op, prefix |-> ToVec(sibling), suffix |-> EmptyVec]

get_inner_op(hash_op, sibling, is_right_node) ==
    IF is_right_node
    THEN [hash |-> hash_op, prefix |-> ToVec(sibling), suffix |-> EmptyVec]
    ELSE [hash |-> hash_op, prefix |-> EmptyVec, suffix |-> ToVec(sibling)]

None == [some |-> FALSE]

Some(x) == [some |-> TRUE, val |-> x]

get_inner_spec(hash_op) ==
    [child_order |-> <<0, 1>>, child_size |-> 32, min_prefix_length |-> 0,
     max_prefix_length |-> 32, empty_child |-> EmptyVec, hash |-> hash_op]

get_spec(hash_op) ==
    [leaf_spec |-> Some(get_leaf_op(hash_op)),
     inner_spec |-> Some(get_inner_spec(hash_op)),
     max_depth |-> TREE_HEIGHT, min_depth |-> 0,
     prehash_key_before_comparison |-> FALSE]

\* the loop of convert; c is the state of the loop
RECURSIVE convert_loop(_)
convert_loop(c) ==
    IF c.proof = <<>> THEN Ok(c.path)
    ELSE IF c.height = TREE_HEIGHT THEN Err("CorruptedProof")
    ELSE
      LET merge_height == IF c.merge_heights # <<>> THEN Head(c.merge_heights)
                          ELSE c.height
          sibling == Head(c.proof)[1]
          sibling_height == Head(c.proof)[2]
          height == IF c.height < sibling_height THEN sibling_height ELSE c.height
      IN IF c.height # merge_height
         THEN convert_loop([c EXCEPT !.height = merge_height])
         ELSE convert_loop(
                [merge_heights |-> IF c.merge_heights = <<>> THEN <<>>
                                   ELSE Tail(c.merge_heights),
                 proof |-> Tail(c.proof),
                 cur_key |-> parent_path(c.cur_key, height),
                 height |-> height + 1,
                 path |-> Append(c.path,
                                 get_inner_op(c.hash_op, sibling,
                                              get_bit(c.cur_key, height))),
                 hash_op |-> c.hash_op])

\* the ExistenceProof of the path the loop has built
convert_result(path, key, value, hash_op) ==
    [key |-> key, value |-> value, leaf |-> get_leaf_op(hash_op), path |-> path]

\* convert after its loop: the error of the loop, or the ExistenceProof
convert_end(res, key, value, hash_op) ==
    IF res.ok THEN Ok(convert_result(res.val, key, value, hash_op)) ELSE res

convert(mp, key, value, hash_op) ==
    convert_end(convert_loop([merge_heights |-> mp.leaves_path[1],
                              proof |-> mp.proof,
                              cur_key |-> key,
                              height |-> 0,
                              path |-> <<>>,
                              hash_op |-> hash_op]),
                key, value, hash_op)

(***************************************************************************)
(* membership_proof and non_membership_proof                               *)
(***************************************************************************)
\* convert of the result mp of merkle_proof: its error, or the conversion
convert_proof(mp, key, value) ==
    IF mp.ok THEN convert(mp.val, key, value, HashOp) ELSE mp

\* merkle_proof(vec![key])? and convert(..)? of one key and its value
existence_proof(t, key, value) ==
    convert_proof(merkle_proof(t, <<key>>), key, value)

\* the CommitmentProof of the result ep of convert: its error, or Exist
commitment_proof(ep) == IF ep.ok THEN Ok([exist |-> ep.val]) ELSE ep

\* membership_proof without the rejection of a zero value
membership_proof_of_any_value(t, key, value) ==
    commitment_proof(existence_proof(t, key, value))

\* membership_proof after the get has returned value
membership_proof_of(t, key, value) ==
    IF value = ValueZero THEN Err("ExistenceProof")
    ELSE commitment_proof(existence_proof(t, key, value))

membership_proof(t, key) == membership_proof_of(t, key, get(t, key))

\* the descent to the right-most (to_right) or left-most leaf under digest n
RECURSIVE extreme_leaf(_, _, _)
extreme_leaf(t, n, to_right) ==
    IF ~MapHas(t.branches_map, n) THEN n
    ELSE
      LET b == t.branches_map[n]
          lr == branch(b, b.fork_height)
          far == IF to_right THEN lr.right ELSE lr.left
          near == IF to_right THEN lr.left ELSE lr.right
      IN IF b.fork_height = 0 THEN n
         ELSE extreme_leaf(t, IF is_zero(far) THEN near ELSE far, to_right)

\* the ExistenceProof of the leaf stored under digest n
leaf_proof(t, n) ==
    IF ~MapHas(t.leaves_map, n) THEN Err("panic: the leaf should exist")
    ELSE existence_proof(t, t.leaves_map[n].key, t.leaves_map[n].value)

neighbour_proof(t, node, to_right) == leaf_proof(t, extreme_leaf(t, node, to_right))

RECURSIVE non_membership_loop(_, _, _)

\* the turn of the loop ends: the error of the proof found, or the proof is
\* kept as left (to_right) or as right and the loop goes on
keep_neighbour(t, key, c, found, to_right) ==
    IF ~found.ok THEN found
    ELSE non_membership_loop(t, key,
                             IF to_right THEN [c EXCEPT !.left = Some(found.val)]
                             ELSE [c EXCEPT !.right = Some(found.val)])

\* the loop over the cache, in the order of its keys; c is the state of the loop
non_membership_loop(t, key, c) ==
    IF DOMAIN c.cache = {} \/ (c.left.some /\ c.right.some)
    THEN Ok([nonexist |-> [key |-> key, left |-> c.left, right |-> c.right]])
    ELSE
      LET pos == first_pos(c.cache)
          node == c.cache[pos]
          rest == [c EXCEPT !.cache = MapRemove(c.cache, pos)]
          is_right == get_bit(key, fork_height(key, t.branches_map[node].key))
      IN IF ~MapHas(t.branches_map, node)
         THEN Err("panic: the forked branch should exist")
         ELSE IF is_right /\ ~c.left.some
         THEN keep_neighbour(t, key, rest, neighbour_proof(t, node, TRUE), TRUE)
         ELSE IF ~is_right /\ ~c.right.some
         THEN keep_neighbour(t, key, rest, neighbour_proof(t, node, FALSE), FALSE)
         ELSE non_membership_loop(t, key, rest)

non_membership_proof(t, key) ==
    IF get(t, key) # ValueZero THEN Err("NonExistenceProof")
    ELSE non_membership_loop(t, key,
                             [cache |-> fetch_merkle_path(t, key, EmptyMap),
                              left |-> None, right |-> None])

(***************************************************************************)
(* validate: the root recomputed from the leaves in key order.             *)
(***************************************************************************)
\* usize::MAX, the height of the last leaf: above every fork height
USIZE_MAX == 2147483647

\* Store::sorted_leaves: the leaves of the store, ascending by key
sorted_leaves(lm) ==
    sort_leaves(
      LET RECURSIVE AsSeq(_)
          AsSeq(ds) == IF ds = {} THEN <<>>
                       ELSE LET d == CHOOSE e \in ds : TRUE
                            IN <<<<lm[d].key, lm[d].value>>>> \o AsSeq(ds \ {d})
      IN AsSeq(DOMAIN lm))

\* the inner loop without the stack of pending nodes: one merge, no more
validate_merge_once(c) ==
    LET merged == merge(c.leaves[c.left + 1].hash, c.leaves[c.right + 1].hash)
    IN [c EXCEPT !.leaves[c.right + 1].hash = merged, !.merged = merged]

\* the inner loop: merge left into right, then the pending nodes on prev
RECURSIVE validate_merge(_)
validate_merge(c) ==
    LET merged == merge(c.leaves[c.left + 1].hash, c.leaves[c.right + 1].hash)
        leaves == [c.leaves EXCEPT ![c.right + 1].hash = merged]
    IN IF c.prev # <<>>
          /\ leaves[c.prev[Len(c.prev)] + 1].height < leaves[c.right + 1].height
       THEN validate_merge([c EXCEPT !.leaves = leaves, !.merged = merged,
                                     !.left = c.prev[Len(c.prev)],
                                     !.prev = SubSeq(c.prev, 1, Len(c.prev) - 1)])
       ELSE [c EXCEPT !.leaves = leaves, !.merged = merged]

RECURSIVE validate_loop(_)
validate_loop(c) ==
    IF c.right >= Len(c.leaves) THEN c.merged
    ELSE
      LET d == IF c.leaves[c.left + 1].height < c.leaves[c.right + 1].height
               THEN validate_merge(c)
               ELSE [c EXCEPT !.prev = Append(@, c.left)]
      IN validate_loop([d EXCEPT !.left = c.right, !.right = c.right + 1])

validate(t) ==
    LET sl == sorted_leaves(t.leaves_map)
        size == Len(sl)
        last == hash_leaf(sl[size][1], sl[size][2])
        leaves == [i \in 1..size |->
                     IF i < size
                     THEN [hash |-> hash_leaf(sl[i][1], sl[i][2]),
                           height |-> fork_height(sl[i][1], sl[i + 1][1])]
                     ELSE [hash |-> last, height |-> USIZE_MAX]]
    IN IF size = 0 THEN t.root = H256Zero
       ELSE IF size = 1 THEN t.root = last
       ELSE validate_loop([leaves |-> leaves, left |-> 0, right |-> 1,
                           merged |-> H256Zero, prev |-> <<>>]) = t.root

(***************************************************************************)
(* The state: the tree (its root and the two maps of its store), and what  *)
(* the properties need of the history: the map the updates have bound so   *)
(* far, the last operation with its result, the tree before it, the        *)
(* snapshot for an insertion that is then deleted, the keys inserted by    *)
(* the runs that insert each key once, and the number of updates.          *)
(***************************************************************************)
VARIABLES root, branches_map, leaves_map, bound, op, result, pre, undo, touched, nops

vars == <<root, branches_map, leaves_map, bound, op, result, pre, undo, touched,
         nops>>

tree == Tree(root, branches_map, leaves_map)

NoOp == [name |-> "new"]

NoUndo == [state |-> "none"]

\* SparseMerkleTree::default() over the keys ks
InitOver(ks) ==
    /\ root = H256Zero
    /\ branches_map = EmptyMap
    /\ leaves_map = EmptyMap
    /\ bound = [k \in ks |-> ValueZero]
    /\ op = NoOp
    /\ result = Ok(H256Zero)
    /\ pre = EmptyTree
    /\ undo = NoUndo
    /\ touched = {}
    /\ nops = 0

Init == InitOver(Keys)

\* the snapshot kept for "insert an unbound key, then delete it"
next_undo(key, value) ==
    IF bound[key] = ValueZero /\ value # ValueZero
    THEN [state |-> "inserted", key |-> key, tree |-> tree]
    ELSE IF undo.state = "inserted" /\ undo.key = key /\ value = ValueZero
    THEN [state |-> "deleted", key |-> key, tree |-> undo.tree]
    ELSE NoUndo

apply_update(key, value) ==
    LET t == update(tree, key, value)
    IN /\ nops' = nops + 1
       /\ root' = t.root
       /\ branches_map' = t.branches_map
       /\ leaves_map' = t.leaves_map
       /\ bound' = [bound EXCEPT ![key] = value]
       /\ op' = [name |-> "update", key |-> key, value |-> value]
       /\ result' = Ok(t.root)
       /\ pre' = tree
       /\ undo' = next_undo(key, value)

UpdateOver(ks, max_ops) ==
    \E key \in ks, value \in Values :
        /\ nops < max_ops
        /\ apply_update(key, value)
        /\ UNCHANGED touched

Update == UpdateOver(Keys, MaxOps)

\* an update of a key no update of the run has named yet
Insert ==
    \E key \in Keys \ touched, value \in Values :
        /\ apply_update(key, value)
        /\ touched' = touched \cup {key}

\* a read-only operation is taken on the tree the constructor or an update
\* has left: it leaves the tree as it is, so a second read of the same tree
\* would explore no tree that the first did not
AfterUpdate == op.name \in {"new", "update"}

read_only == /\ UNCHANGED <<root, branches_map, leaves_map, bound, touched, nops>>
             /\ pre' = tree
             /\ undo' = NoUndo

read(name_and_input, output) ==
    /\ AfterUpdate
    /\ op' = name_and_input
    /\ result' = output
    /\ read_only

Get ==
    \E key \in Keys :
        read([name |-> "get", key |-> key], Ok(get(tree, key)))

Validate ==
    read([name |-> "validate"], Ok(validate(tree)))

Next == Update \/ Get \/ Validate

Spec == Init /\ [][Next]_vars

RECURSIVE SetToSeq(_)
SetToSeq(ks) ==
    IF ks = {} THEN <<>>
    ELSE LET k == CHOOSE e \in ks : TRUE IN <<k>> \o SetToSeq(ks \ {k})

RECURSIVE Reverse(_)
Reverse(seq) == IF seq = <<>> THEN <<>> ELSE Append(Reverse(Tail(seq)), Head(seq))

\* the lists of keys handed to merkle_proof: every set of keys, in
\* descending order (merkle_proof sorts its argument), the empty list too
KeyLists == { Reverse(sort_keys(SetToSeq(ks))) : ks \in SUBSET Keys }

\* the leaves (k, get(k)) of a list of keys
leaves_of(t, keys) == [i \in 1..Len(keys) |-> <<keys[i], get(t, keys[i])>>]

MerkleProofOp ==
    \E keys \in KeyLists :
        read([name |-> "merkle_proof", keys |-> keys], merkle_proof(tree, keys))

\* MerkleProof::verify of mp against the root of the tree
verify_proof(generated, mp, leaves) ==
    /\ op' = [name |-> "verify", generated |-> generated, proof |-> mp,
              leaves |-> leaves]
    /\ result' = verify(mp, root, leaves)
    /\ read_only

\* the proof just generated is verified with the leaves (k, get(k)) of its keys
Verify ==
    /\ op.name = "merkle_proof"
    /\ result.ok
    /\ verify_proof(TRUE, result.val, leaves_of(tree, op.keys))

\* the digests a prover can read off the tree
digests(t) == {H256Zero, t.root} \cup DOMAIN t.branches_map

\* a proof built by hand is verified: one leaf, one sibling at one height
VerifyHandBuilt ==
    \E key \in Keys, value \in Values, sibling \in digests(tree) :
        \E height \in {0, 8 * Len(key) - 1} :
            /\ AfterUpdate
            /\ verify_proof(FALSE,
                            MerkleProof(<<<<height>>>>, <<<<sibling, height>>>>),
                            <<<<key, value>>>>)

NextProof == Update \/ MerkleProofOp \/ Verify \/ VerifyHandBuilt

SpecProof == Init /\ [][NextProof]_vars

MembershipProofOver(ks) ==
    \E key \in ks :
        read([name |-> "membership_proof", key |-> key], membership_proof(tree, key))

MembershipProof == MembershipProofOver(Keys)

NonMembershipProof ==
    \E key \in Keys :
        read([name |-> "non_membership_proof", key |-> key],
             non_membership_proof(tree, key))

NextIcs == Update \/ MembershipProof \/ NonMembershipProof

SpecIcs == Init /\ [][NextIcs]_vars

\* the tree over keys of WideN bytes: the zero key, and the keys that
\* differ from it in bit TREE_HEIGHT - 1 only and in bit TREE_HEIGHT only
WideKeys ==
    { KeyZero(WideN),
      set_bit(KeyZero(WideN), TREE_HEIGHT - 1),
      set_bit(KeyZero(WideN), TREE_HEIGHT) }

InitWide == InitOver(WideKeys)

UpdateWide == UpdateOver(WideKeys, MaxWideOps)

MembershipProofWide == MembershipProofOver(WideKeys)

\* the hash operations handed to get_spec
HashOps == {"Sha256", "Sha512"}

\* get_spec: the ProofSpec a verifier checks the proofs of the tree against
GetSpec ==
    \E hash_op \in HashOps :
        read([name |-> "get_spec", hash_op |-> hash_op], get_spec(hash_op))

NextWide == UpdateWide \/ MembershipProofWide \/ GetSpec

SpecWide == InitWide /\ [][NextWide]_vars

\* the runs that update each key at most once, in any order
NextOrder == Insert

SpecOrder == Init /\ [][NextOrder]_vars

(***************************************************************************)
(* InternalKey::copy_bits on its own: the key and the range are drawn by   *)
(* the initial state, the one step applies copy_bits to them.              *)
(***************************************************************************)
\* the bytes of the keys: no bit, every bit, and the bits 0, 2, 5 and 7
BitBytes == {0, 165, 255}

BitKeys == { Array([j \in 1..BitsN |-> f[j]]) : f \in [1..BitsN -> BitBytes] }

\* the ranges start..start+size with size >= 1 that end inside the key
BitInputs ==
    { [name |-> "input", key |-> k, start |-> s, size |-> z] :
        k \in BitKeys, s \in 0..(BYTE_SIZE * BitsN - 1),
        z \in 1..(BYTE_SIZE * BitsN) }

InitBits ==
    /\ op \in { i \in BitInputs : i.start + i.size <= BYTE_SIZE * BitsN }
    /\ result = op.key
    /\ root = H256Zero
    /\ branches_map = EmptyMap
    /\ leaves_map = EmptyMap
    /\ bound = EmptyMap
    /\ pre = EmptyTree
    /\ undo = NoUndo
    /\ touched = {}
    /\ nops = 0

\* key.copy_bits(start..start + size)
CopyBits ==
    /\ op.name = "input"
    /\ op' = [op EXCEPT !.name = "copy_bits"]
    /\ result' = copy_bits(op.key, op.start, op.start + op.size)
    /\ UNCHANGED <<root, branches_map, leaves_map, bound, pre, undo, touched, nops>>

NextBits == CopyBits

SpecBits == InitBits /\ [][NextBits]_vars

(***************************************************************************)
(* InternalKey::fork_height and parent_path on their own: two keys and a   *)
(* height are drawn by the initial state, a step applies one of the two    *)
(* functions to them.                                                      *)
(***************************************************************************)
\* the bytes of the keys: they differ in bit 0, in bit 1, in bit 6, in bit 7
ForkBytes == {0, 1, 3, 165, 255}

ForkKeys == { Array([j \in 1..ForkN |-> f[j]]) : f \in [1..ForkN -> ForkBytes] }

ForkInputs ==
    { [name |-> "input", a |-> a, b |-> b, height |-> h] :
        a \in ForkKeys, b \in ForkKeys, h \in 0..(BYTE_SIZE * ForkN - 1) }

InitFork ==
    /\ op \in ForkInputs
    /\ result = <<>>
    /\ root = H256Zero
    /\ branches_map = EmptyMap
    /\ leaves_map = EmptyMap
    /\ bound = EmptyMap
    /\ pre = EmptyTree
    /\ undo = NoUndo
    /\ touched = {}
    /\ nops = 0

\* a.fork_height(&b) and b.fork_height(&a)
ForkHeight ==
    /\ op.name = "input"
    /\ op' = [op EXCEPT !.name = "fork_height"]
    /\ result' = <<fork_height(op.a, op.b), fork_height(op.b, op.a)>>
    /\ UNCHANGED <<root, branches_map, leaves_map, bound, pre, undo, touched, nops>>

\* a.parent_path(height) and b.parent_path(height)
ParentPath ==
    /\ op.name = "input"
    /\ op' = [op EXCEPT !.name = "parent_path"]
    /\ result' = <<parent_path(op.a, op.height), parent_path(op.b, op.height)>>
    /\ UNCHANGED <<root, branches_map, leaves_map, bound, pre, undo, touched, nops>>

NextFork == ForkHeight \/ ParentPath

SpecFork == InitFork /\ [][NextFork]_vars

(***************************************************************************)
(* PaddedKey<N>: the bytes of the user's key, right-padded with 0xFF to N  *)
(* bytes, and the number of bytes before the padding.                      *)
(***************************************************************************)
PaddedKey(padded, length) == [padded |-> padded, length |-> length]

\* try_from that takes the whole array for the key
try_from_whole_array(v, n) ==
    IF Len(v) > n THEN Err("KeyTooLarge")
    ELSE Ok(PaddedKey(Array([j \in 1..n |-> IF j <= Len(v) THEN v[j] ELSE 255]),
                      n))

\* PaddedKey::<n>::try_from(v)
try_from(v, n) ==
    IF Len(v) > n THEN Err("KeyTooLarge")
    ELSE Ok(PaddedKey(Array([j \in 1..n |-> IF j <= Len(v) THEN v[j] ELSE 255]),
                      Len(v)))

\* array[..self.length].to_vec()
to_vec(key) == SubSeq(key.padded, 1, key.length)

\* &self.padded.as_slice()[..self.length]
as_slice(key) == SubSeq(key.padded, 1, key.length)

\* the bytes of the users' keys: the padding byte is one of them
PadBytes == {0, 1, 7, 255}

\* the byte strings of up to PadN + 1 bytes
PadInputs ==
    UNION { [1..n -> PadBytes] : n \in 0..(PadN + 1) }

InitPad ==
    /\ op \in { [name |-> "input", bytes |-> Array(v)] : v \in PadInputs }
    /\ result = <<>>
    /\ root = H256Zero
    /\ branches_map = EmptyMap
    /\ leaves_map = EmptyMap
    /\ bound = EmptyMap
    /\ pre = EmptyTree
    /\ undo = NoUndo
    /\ touched = {}
    /\ nops = 0

\* PaddedKey::<PadN>::try_from(bytes)
TryFrom ==
    /\ op.name = "input"
    /\ op' = [op EXCEPT !.name = "try_from"]
    /\ result' = try_from(op.bytes, PadN)
    /\ UNCHANGED <<root, branches_map, leaves_map, bound, pre, undo, touched, nops>>

\* key.to_vec() of the key try_from has returned
KeyToVec ==
    /\ op.name = "try_from"
    /\ result.ok
    /\ op' = [name |-> "to_vec", bytes |-> op.bytes, key |-> result.val]
    /\ result' = to_vec(result.val)
    /\ UNCHANGED <<root, branches_map, leaves_map, bound, pre, undo, touched, nops>>

\* key.as_slice() of the key try_from has returned
KeyAsSlice ==
    /\ op.name = "try_from"
    /\ result.ok
    /\ op' = [name |-> "as_slice", bytes |-> op.bytes, key |-> result.val]
    /\ result' = as_slice(result.val)
    /\ UNCHANGED <<root, branches_map, leaves_map, bound, pre, undo, touched, nops>>

NextPad == TryFrom \/ KeyToVec \/ KeyAsSlice

SpecPad == InitPad /\ [][NextPad]_vars

(***************************************************************************)
(* The tree over a store that may fail: an update is given the number of   *)
(* store operations that succeed.  After an update that has failed the     *)
(* tree is in no defined state, and the run ends.                          *)
(***************************************************************************)
apply_update_over_store(key, value, r) ==
    /\ root' = r.tree.root
    /\ branches_map' = r.tree.branches_map
    /\ leaves_map' = r.tree.leaves_map
    /\ result' = r.result
    /\ bound' = IF r.result.ok THEN [bound EXCEPT ![key] = value] ELSE bound

UpdateOverStore ==
    \E key \in Keys, value \in Values, left \in 0..MaxStoreOps :
        /\ nops < MaxOps
        /\ result.ok
        /\ apply_update_over_store(key, value,
                                   update_over_store(tree, key, value, left))
        /\ op' = [name |-> "update", key |-> key, value |-> value, left |-> left]
        /\ pre' = tree
        /\ nops' = nops + 1
        /\ undo' = NoUndo
        /\ UNCHANGED touched

NextStore == UpdateOverStore

SpecStore == Init /\ [][NextStore]_vars

(***************************************************************************)
(* The loops of get, update and merkle_proof, one turn at a time.  The     *)
(* state of a loop is in result; visited is the list of the fork heights   *)
(* of the branches the walk has read, and stop names the exit it has       *)
(* taken.                                                                  *)
(***************************************************************************)
Walk(node, height, path, bm) ==
    [node |-> node, height |-> height, path |-> path, bm |-> bm,
     visited |-> <<>>, done |-> FALSE, stop |-> "none"]

\* the turn of get without the exit at a branch of fork height 0
get_turn_no_exit(t, key, g) ==
    IF is_zero(g.node) THEN [g EXCEPT !.done = TRUE, !.stop = "zero"]
    ELSE IF ~MapHas(t.branches_map, g.node)
    THEN [g EXCEPT !.done = TRUE, !.stop = "missing"]
    ELSE
      LET branch_node == t.branches_map[g.node]
          lr == branch(branch_node, branch_node.fork_height)
          next == IF get_bit(key, branch_node.fork_height) THEN lr.right ELSE lr.left
      IN IF branch_node.fork_height = 0
         THEN [g EXCEPT !.node = next]
         ELSE [g EXCEPT !.node = next,
                        !.visited = Append(@, branch_node.fork_height)]

\* one turn of `while !node.is_zero()` of get
get_turn(t, key, g) ==
    IF is_zero(g.node) THEN [g EXCEPT !.done = TRUE, !.stop = "zero"]
    ELSE IF ~MapHas(t.branches_map, g.node)
    THEN [g EXCEPT !.done = TRUE, !.stop = "missing"]
    ELSE
      LET branch_node == t.branches_map[g.node]
          lr == branch(branch_node, branch_node.fork_height)
          next == IF get_bit(key, branch_node.fork_height) THEN lr.right ELSE lr.left
      IN IF branch_node.fork_height = 0
         THEN [g EXCEPT !.node = next, !.done = TRUE, !.stop = "bottom",
                        !.visited = Append(@, branch_node.fork_height)]
         ELSE [g EXCEPT !.node = next,
                        !.visited = Append(@, branch_node.fork_height)]

\* one turn of `while branch.is_some()` of update
update_turn(w, key) ==
    IF ~MapHas(w.bm, w.node) THEN [w EXCEPT !.done = TRUE, !.stop = "missing"]
    ELSE
      LET branch_node == w.bm[w.node]
          fh == Max(fork_height(key, branch_node.key), branch_node.fork_height)
          bm1 == IF branch_node.fork_height > 0
                 THEN MapRemove(w.bm, w.node) ELSE w.bm
          lr == branch(branch_node, w.height)
          is_right == get_bit(key, w.height)
          next == IF is_right THEN lr.right ELSE lr.left
          sibling == IF is_right THEN lr.left ELSE lr.right
      IN IF w.height > branch_node.fork_height
         THEN [w EXCEPT !.path = MapInsert(w.path, fh, w.node),
                        !.visited = Append(@, branch_node.fork_height),
                        !.done = TRUE, !.stop = "above"]
         ELSE IF w.node = next
         THEN [w EXCEPT !.bm = bm1,
                        !.visited = Append(@, branch_node.fork_height),
                        !.done = TRUE, !.stop = "self"]
         ELSE [w EXCEPT !.node = next,
                        !.height = update_height(bm1, next, key, w.height),
                        !.path = MapInsert(w.path, w.height, sibling),
                        !.bm = bm1,
                        !.visited = Append(@, branch_node.fork_height)]

\* a call in progress, or ended: its loop state is in result
Loops == {"get_loop", "update_loop", "merkle_proof_loop"}

call(name_and_input, loop_state) ==
    /\ AfterUpdate
    /\ op' = name_and_input
    /\ result' = loop_state
    /\ read_only

turn(name, loop_state) ==
    /\ op.name = name
    /\ ~result.done
    /\ result' = loop_state
    /\ UNCHANGED <<root, branches_map, leaves_map, bound, op, pre, undo, touched,
                   nops>>

\* an update of a tree on which no call is in progress
UpdateIdle == AfterUpdate /\ Update

GetCall ==
    \E key \in Keys :
        call([name |-> "get_loop", key |-> key], Walk(root, 0, EmptyMap, EmptyMap))

GetTurn == turn("get_loop", get_turn(tree, op.key, result))

UpdateCall ==
    \E key \in Keys :
        call([name |-> "update_loop", key |-> key],
             Walk(root, update_height(branches_map, root, key, 0), EmptyMap,
                  branches_map))

UpdateTurn == turn("update_loop", update_turn(result, op.key))

MerkleProofCall ==
    \E keys \in KeyLists \ {<<>>} :
        call([name |-> "merkle_proof_loop", keys |-> keys],
             first_turn(tree, sort_keys(keys)))

MerkleProofTurn == turn("merkle_proof_loop", proof_step(result))

Turn == GetTurn \/ UpdateTurn \/ MerkleProofTurn

NextTurns ==
    \/ UpdateIdle
    \/ GetCall \/ GetTurn
    \/ UpdateCall \/ UpdateTurn
    \/ MerkleProofCall \/ MerkleProofTurn

\* a call that can take a turn takes it: a call runs until it returns
SpecTurns == Init /\ [][NextTurns]_vars /\ WF_vars(Turn)

(***************************************************************************)
(* Reference trees: the updates of a map applied to the empty tree in      *)
(* ascending order of the keys.                                            *)
(***************************************************************************)
AscendingKeys(ks) == sort_keys(SetToSeq(ks))

RECURSIVE update_all(_, _, _)
update_all(t, keys, b) ==
    IF keys = <<>> THEN t
    ELSE update_all(update(t, Head(keys), b[Head(keys)]), Tail(keys), b)

BoundKeys(b) == { k \in DOMAIN b : b[k] # ValueZero }

\* the tree of the run that names each key of ks once, in ascending order
ascending_tree(ks, b) == update_all(EmptyTree, AscendingKeys(ks), b)

\* the fresh tree into which only the non-zero bindings of b were inserted
fresh_tree(b) == ascending_tree(BoundKeys(b), b)

(***************************************************************************)
(* Properties                                                              *)
(***************************************************************************)
\* C1: order independence.  Under SpecOrder, whose runs update each pair of
\* a set of pairs with distinct keys once, in every order: whatever the
\* order, the root is the root of the run that applies the same pairs in
\* ascending order of the keys, so all permutations give one root.
C1_OrderIndependence ==
    root = ascending_tree(touched, bound).root

\* a run of three pairs or more that was not in ascending order
C1_Witness ==
    /\ Cardinality(touched) >= 3
    /\ Cardinality(BoundKeys(bound)) >= 3
    /\ \E k \in touched : key_less(op.key, k)
    /\ root = ascending_tree(touched, bound).root

\* C2: history independence.  After any sequence of updates (rebinding,
\* binding to zero, binding zero to a key never bound), the root is the
\* root of a fresh tree into which only the current non-zero bindings were
\* inserted; two histories with the same final map have the same root.
C2_HistoryIndependence ==
    root = fresh_tree(bound).root

\* a key was bound and then bound to zero, and other keys remain bound
C2_Witness ==
    /\ op.name = "update"
    /\ op.value = ValueZero
    /\ get(pre, op.key) # ValueZero
    /\ BoundKeys(bound) # {}
    /\ root = fresh_tree(bound).root

\* C3: get after put.  Right after update(k, v), get(k) returns v (zero
\* when v is zero).
C3_GetAfterPut ==
    op.name = "update" => get(tree, op.key) = op.value

\* a key bound to a non-zero value is rebound to another non-zero value
C3_Witness ==
    /\ op.name = "update"
    /\ op.value # ValueZero
    /\ get(pre, op.key) # ValueZero
    /\ get(pre, op.key) # op.value
    /\ get(tree, op.key) = op.value

\* C4: delete symmetry.  update(k, v) of an unbound key k with a non-zero
\* v, followed by update(k, zero), returns the root, the leaf map and the
\* branch map to their contents before the first of the two updates.
C4_DeleteSymmetry ==
    undo.state = "deleted" => tree = undo.tree

\* C10: validate.  After any sequence of updates, validate() returns true.
C10_Validate ==
    op.name = "validate" => result = Ok(TRUE)

\* validate() has merged three leaves into the stored root, the first of
\* them pending on the stack until the other two were merged
C10_Witness ==
    /\ op.name = "validate"
    /\ LET sl == sorted_leaves(leaves_map)
       IN /\ Len(sl) >= 3
          /\ fork_height(sl[1][1], sl[2][1]) > fork_height(sl[2][1], sl[3][1])
    /\ result = Ok(TRUE)

\* C5: proof completeness.  For every non-empty list of distinct keys,
\* bound or not, merkle_proof returns a proof, and with the leaves
\* (k, get(k)) of those keys compute_root returns the root of the tree and
\* verify returns true.
C5_ProofCompleteness ==
    /\ (op.name = "merkle_proof" /\ op.keys # <<>>) => result.ok
    /\ (op.name = "verify" /\ op.generated) =>
          /\ compute_root(op.proof, op.leaves) = Ok(root)
          /\ result = Ok(TRUE)

\* a proof for a bound and an unbound key, with a sibling in it, verified
C5_Witness ==
    /\ op.name = "verify"
    /\ op.generated
    /\ \E i, j \in 1..Len(op.leaves) :
          op.leaves[i][2] # ValueZero /\ op.leaves[j][2] = ValueZero
    /\ op.proof.proof # <<>>
    /\ result = Ok(TRUE)

\* the other pairs a pair of a list of leaves can be replaced by: another
\* value, another key (none of the list's other keys), or both
replaced_leaves(leaves) ==
    { [leaves EXCEPT ![i] = <<k, v>>] :
        i \in 1..Len(leaves), k \in Keys, v \in Values } \ {leaves}

distinct_keys(leaves) ==
    \A i, j \in 1..Len(leaves) : i # j => leaves[i][1] # leaves[j][1]

\* C6: a proof with one wrong leaf fails.  For a generated proof that
\* verifies with the leaves (k, get(k)), replacing any one pair by a
\* different pair makes the recomputed root differ from the root of the
\* tree, or makes the recomputation fail.
C6_WrongLeafFails ==
    (op.name = "verify" /\ op.generated /\ result = Ok(TRUE)) =>
        \A wrong \in replaced_leaves(op.leaves) :
            distinct_keys(wrong) => compute_root(op.proof, wrong) # Ok(root)

\* C7: proof soundness.  Whatever the proof, generated or built by hand, if
\* the verification of leaves against the root of the tree returns true,
\* then every leaf (k, v) has get(k) = v; no proof verifies a bound key as
\* having the zero value.
C7_ProofSoundness ==
    (op.name = "verify" /\ result = Ok(TRUE)) =>
        \A i \in 1..Len(op.leaves) : get(tree, op.leaves[i][1]) = op.leaves[i][2]

\* the existence proof of a bound key, as the claims describe it: the key,
\* its value, and one InnerOp per entry of the single-leaf proof of the key,
\* bottom-up, the sibling on the side the key's bit at the entry's height
\* leaves free
expected_existence(t, key) ==
    LET mp == merkle_proof(t, <<key>>).val
    IN [key |-> key, value |-> get(t, key), leaf |-> get_leaf_op(HashOp),
        path |-> [i \in 1..Len(mp.proof) |->
                    get_inner_op(HashOp, mp.proof[i][1],
                                 get_bit(key, mp.proof[i][2]))]]

\* the existence proof of the greatest (smallest) of the keys ks, if any
expected_neighbour(t, ks, greatest) ==
    IF ks = {} THEN None
    ELSE Some(expected_existence(t,
              CHOOSE k \in ks : \A j \in ks :
                  j = k \/ (IF greatest THEN key_less(j, k) ELSE key_less(k, j))))

\* C8: non-membership proof.  For every key k that is not bound,
\* non_membership_proof(k) returns Ok, neither an error nor a panic, with a
\* NonExistenceProof for k whose left is the existence proof of the
\* greatest bound key smaller than k and whose right is the existence proof
\* of the smallest bound key greater than k, each absent only when there is
\* no such key.
C8_NonMembershipProof ==
    (op.name = "non_membership_proof" /\ bound[op.key] = ValueZero) =>
        /\ result.ok
        /\ result.val.nonexist.key = op.key
        /\ result.val.nonexist.left =
              expected_neighbour(tree,
                  { k \in BoundKeys(bound) : key_less(k, op.key) }, TRUE)
        /\ result.val.nonexist.right =
              expected_neighbour(tree,
                  { k \in BoundKeys(bound) : key_less(op.key, k) }, FALSE)

\* C9: membership proof conversion.  For every key width and every key k
\* bound to a non-zero v, membership_proof(k) returns Ok with an
\* ExistenceProof that carries k, v and one InnerOp per entry of the
\* single-leaf proof of k, bottom-up; CorruptedProof is not returned for a
\* proof that merkle_proof produced.
C9_MembershipConversion ==
    (op.name = "membership_proof" /\ bound[op.key] # ValueZero) =>
        /\ result.ok
        /\ result.val.exist = expected_existence(tree, op.key)

\* C11: non-interference between keys.  Right after update(k, v), for
\* every other key k2, get(k2) returns what it returned before the update,
\* also when v is zero and when k was never bound.
C11_NonInterference ==
    op.name = "update" =>
        \A k2 \in Keys \ {op.key} : get(tree, k2) = get(pre, k2)

\* a bound key is bound to zero while its neighbour, the key that differs
\* from it in bit 0 only, stays bound
C11_Witness ==
    /\ op.name = "update"
    /\ op.value = ValueZero
    /\ get(pre, op.key) # ValueZero
    /\ \E k2 \in Keys \ {op.key} :
          /\ fork_height(k2, op.key) = 0
          /\ get(tree, k2) # ValueZero
    /\ \A k2 \in Keys \ {op.key} : get(tree, k2) = get(pre, k2)

\* C12: binding zero to an absent key changes nothing.  In every tree
\* reachable by updates, right after update(k, zero) of a key k that was not
\* bound, the root, the leaf map and the branch map equal their contents
\* before the call.
C12_ZeroToAbsentChangesNothing ==
    (/\ op.name = "update"
     /\ op.value = ValueZero
     /\ get(pre, op.key) = ValueZero)
        => /\ root = pre.root
           /\ leaves_map = pre.leaves_map
           /\ branches_map = pre.branches_map

\* C13: zero-value identity on a fresh tree.  update(k, zero) on an empty
\* tree succeeds and leaves the root zero and both the leaf map and the
\* branch map empty.
C13_ZeroOnFreshTree ==
    (/\ op.name = "update"
     /\ op.value = ValueZero
     /\ pre = EmptyTree)
        => /\ result = Ok(H256Zero)
           /\ root = H256Zero
           /\ leaves_map = EmptyMap
           /\ branches_map = EmptyMap

\* the first operation on the tree binds zero to a key
C13_Witness ==
    /\ nops = 1
    /\ op.name = "update"
    /\ op.value = ValueZero
    /\ pre = EmptyTree
    /\ tree = EmptyTree

\* C14: get of an absent key.  In every tree reachable by updates, get(k)
\* for a key k that is not bound (never bound, or bound and then set to
\* zero) returns Ok(zero) and no error, also on the empty tree and when a
\* bound key shares every bit of k except bit 0.
C14_GetAbsent ==
    (op.name = "get" /\ bound[op.key] = ValueZero) => result = Ok(ValueZero)

\* get of a key that is not bound, after three updates, while the key that
\* differs from it in bit 0 only is bound
C14_Witness ==
    /\ op.name = "get"
    /\ bound[op.key] = ValueZero
    /\ nops = 3
    /\ \E k2 \in Keys :
          /\ fork_height(k2, op.key) = 0
          /\ k2 # op.key
          /\ bound[k2] # ValueZero
    /\ result = Ok(ValueZero)

\* the keys bound to a non-zero value
bound_keys == BoundKeys(bound)

\* C15: the leaf map.  After every update of a sequence started on an empty
\* tree, the leaf map holds one entry for each key bound to a non-zero
\* value, under hash_leaf(key, value) and with that key and its latest
\* value, and no other entry.
C15_LeafMap ==
    op.name = "update" =>
        /\ DOMAIN leaves_map = { hash_leaf(k, bound[k]) : k \in bound_keys }
        /\ \A k \in bound_keys :
              leaves_map[hash_leaf(k, bound[k])] = LeafNode(k, bound[k])

\* the update has overwritten the non-zero value of a key with another one,
\* and another key is bound
C15_Witness ==
    /\ op.name = "update"
    /\ op.value # ValueZero
    /\ get(pre, op.key) \notin {ValueZero, op.value}
    /\ Cardinality(bound_keys) = 2
    /\ Cardinality(DOMAIN leaves_map) = 2
    /\ leaves_map[hash_leaf(op.key, op.value)] = LeafNode(op.key, op.value)

\* C16: rebinding does not grow the store.  In every tree reachable by
\* updates, right after update(k, v2) of a key k that was bound to a
\* non-zero value, with v2 non-zero, the leaf map and the branch map have as
\* many entries as before the call.
C16_RebindingKeepsSize ==
    (/\ op.name = "update"
     /\ op.value # ValueZero
     /\ get(pre, op.key) # ValueZero)
        => /\ Cardinality(DOMAIN leaves_map) = Cardinality(DOMAIN pre.leaves_map)
           /\ Cardinality(DOMAIN branches_map) = Cardinality(DOMAIN pre.branches_map)

\* C17: merkle_proof of no key.  On every tree, merkle_proof called with an
\* empty list of keys returns Err(EmptyKeys) and leaves the root and the
\* store as they were.
C17_EmptyKeys ==
    (op.name = "merkle_proof" /\ op.keys = <<>>)
        => /\ result = Err("EmptyKeys")
           /\ tree = pre

\* merkle_proof of no key on a tree of two leaves
C17_Witness ==
    /\ op.name = "merkle_proof"
    /\ op.keys = <<>>
    /\ Cardinality(DOMAIN leaves_map) = 2
    /\ result = Err("EmptyKeys")

\* C18: the two ICS-23 generators partition the keys by presence.  In every
\* tree reachable by updates and for every key k, membership_proof(k)
\* returns Err(ExistenceProof) exactly when get(k) is zero, and
\* non_membership_proof(k) returns Err(NonExistenceProof) exactly when get(k)
\* is not zero.
C18_PresencePartition ==
    /\ op.name = "membership_proof" =>
          (result = Err("ExistenceProof") <=> get(tree, op.key) = ValueZero)
    /\ op.name = "non_membership_proof" =>
          (result = Err("NonExistenceProof") <=> get(tree, op.key) # ValueZero)

\* membership_proof of an absent key is rejected on a tree of two leaves
C18_Witness ==
    /\ op.name = "membership_proof"
    /\ get(tree, op.key) = ValueZero
    /\ Cardinality(DOMAIN leaves_map) = 2
    /\ result = Err("ExistenceProof")

\* the width in bytes of the keys of the tree
key_width == Len(CHOOSE k \in DOMAIN bound : TRUE)

\* C19: get_spec.  get_spec(hash_op) returns a ProofSpec with child_order
\* [0, 1], child_size 32, min_prefix_length 0, max_prefix_length 32, an empty
\* empty_child, min_depth 0, prehash_key_before_comparison false, and
\* max_depth equal to 8 * N, the number of bits of the keys of the tree the
\* proofs come from.
C19_GetSpec ==
    op.name = "get_spec" =>
        /\ result.inner_spec.some
        /\ result.inner_spec.val.child_order = <<0, 1>>
        /\ result.inner_spec.val.child_size = 32
        /\ result.inner_spec.val.min_prefix_length = 0
        /\ result.inner_spec.val.max_prefix_length = 32
        /\ result.inner_spec.val.empty_child = EmptyVec
        /\ result.min_depth = 0
        /\ result.prehash_key_before_comparison = FALSE
        /\ result.max_depth = BYTE_SIZE * key_width

\* C20: copy_bits is a projection.  For every key of width N and all start
\* and size with size >= 1 and start + size <= 8 * N, the key returned by
\* copy_bits(start..start + size) has bit i equal to the bit i of the source
\* for every i of the range, and bit i equal to 0 for every other i below
\* 8 * N.
C20_CopyBitsProjection ==
    op.name = "copy_bits" =>
        /\ Len(result) = Len(op.key)
        /\ \A i \in 0..(BYTE_SIZE * Len(op.key) - 1) :
              get_bit(result, i) =
                  IF op.start <= i /\ i < op.start + op.size
                  THEN get_bit(op.key, i) ELSE FALSE

\* a range that starts and ends inside a byte and holds a whole byte between
\* them, of a key with set and clear bits inside the range and set bits on
\* both sides of it
C20_Witness ==
    /\ op.name = "copy_bits"
    /\ op.start % BYTE_SIZE # 0
    /\ (op.start + op.size) % BYTE_SIZE # 0
    /\ op.size > 2 * BYTE_SIZE
    /\ \E i \in 0..(op.start - 1) : get_bit(op.key, i) /\ ~get_bit(result, i)
    /\ \E i \in (op.start + op.size)..(BYTE_SIZE * Len(op.key) - 1) :
          get_bit(op.key, i) /\ ~get_bit(result, i)
    /\ \E i, j \in op.start..(op.start + op.size - 1) :
          get_bit(result, i) /\ ~get_bit(op.key, j)

\* the digests met by the walks from the digests of seen that follow the
\* node and sibling fields of the stored branches
RECURSIVE reachable_from(_, _)
reachable_from(bm, seen) ==
    LET stored == seen \cap DOMAIN bm
        next == seen \cup { bm[d].node : d \in stored }
                     \cup { bm[d].sibling : d \in stored }
    IN IF next = seen THEN seen ELSE reachable_from(bm, next)

\* C21: store closure.  After every update of a sequence started on an
\* empty tree, every digest reachable from the root by the node and sibling
\* fields of the stored branches is zero, or a key of the leaf map, or a key
\* of the branch map.
C21_StoreClosure ==
    op.name = "update" =>
        \A d \in reachable_from(branches_map, {root}) :
            \/ is_zero(d)
            \/ MapHas(leaves_map, d)
            \/ MapHas(branches_map, d)

\* three leaves are reached from a root that is a stored inner branch
C21_Witness ==
    /\ op.name = "update"
    /\ MapHas(branches_map, root)
    /\ ~MapHas(leaves_map, root)
    /\ Cardinality(DOMAIN leaves_map) = 3
    /\ DOMAIN leaves_map \subseteq reachable_from(branches_map, {root})

\* C22: the stored branches.  After every update, every entry (D, branch)
\* of the branch map has D = merge(left, right), where (left, right) is
\* (sibling, node) when the bit fork_height of branch.key is 1 and (node,
\* sibling) otherwise, and branch.node is not zero; the self-branch stored
\* under a leaf digest (fork_height 0, sibling zero) included.
C22_BranchDigest ==
    op.name = "update" =>
        \A d \in DOMAIN branches_map :
            LET b == branches_map[d]
            IN /\ d = (IF get_bit(b.key, b.fork_height)
                       THEN merge(b.sibling, b.node)
                       ELSE merge(b.node, b.sibling))
               /\ ~is_zero(b.node)

\* the branch map holds the self-branch of a leaf and an inner branch whose
\* node is the right child, both children being non-zero
C22_Witness ==
    /\ op.name = "update"
    /\ \E d \in DOMAIN branches_map :
          /\ MapHas(leaves_map, d)
          /\ branches_map[d] = BranchNode(0, leaves_map[d].key, d, H256Zero)
    /\ \E d \in DOMAIN branches_map :
          LET b == branches_map[d]
          IN /\ b.fork_height > 0
             /\ get_bit(b.key, b.fork_height)
             /\ ~is_zero(b.sibling)
             /\ d = <<"node", b.sibling, b.node>>

\* the key k lies in the subtree of the sibling of the position (key, height)
in_sibling_subtree(k, key, height) ==
    /\ parent_path(k, height) = parent_path(key, height)
    /\ get_bit(k, height) # get_bit(key, height)

\* the turn from q to q2 on an item whose sibling subtree holds a queried
\* key emits no proof entry and records the height for the item and for a
\* queried key of the sibling subtree
shared_turn(q, q2, sorted) ==
    LET item == Head(q.queue)
        shared == { j \in 1..Len(sorted) :
                      in_sibling_subtree(sorted[j], item.key, item.height) }
    IN (item.height < BYTE_SIZE * Len(item.key) /\ shared # {}) =>
          /\ q2.proof = q.proof
          /\ q2.leaves_path[item.leaf_index] =
                Append(q.leaves_path[item.leaf_index], item.height)
          /\ \E j \in shared \ {item.leaf_index} :
                q2.leaves_path[j] = Append(q.leaves_path[j], item.height)

\* shared_turn holds of every turn of the loop from q on
RECURSIVE shared_turns(_, _, _)
RECURSIVE shared_turns_from(_, _, _, _)
shared_turns(q, sorted, n) ==
    IF q.done \/ q.queue = <<>> \/ n = 0 THEN TRUE
    ELSE shared_turns_from(q, proof_step(q), sorted, n)

shared_turns_from(q, q2, sorted, n) ==
    shared_turn(q, q2, sorted) /\ shared_turns(q2, sorted, n - 1)

\* C23: shared siblings in a proof of several keys.  In merkle_proof(keys)
\* with pairwise distinct keys, a turn on an item at height h whose sibling
\* subtree holds another queried key emits no (sibling, height) entry and
\* records h in the leaves_path of both keys, so that no entry of the proof
\* is the digest of a subtree that holds a queried key.
C23_SharedSiblings ==
    (op.name = "merkle_proof" /\ op.keys # <<>>) =>
        shared_turns(first_turn(tree, sort_keys(op.keys)), sort_keys(op.keys),
                     Len(op.keys) * (BYTE_SIZE * Len(op.keys[1]) + 1) + 1)

\* the proof of two neighbours in a tree of three leaves: one sibling, and
\* a height recorded for both keys
C23_Witness ==
    /\ op.name = "merkle_proof"
    /\ Len(op.keys) = 2
    /\ Cardinality(DOMAIN leaves_map) = 3
    /\ \A i \in 1..2 : get(tree, op.keys[i]) # ValueZero
    /\ result.ok
    /\ Len(result.val.proof) = 1
    /\ \E i \in 1..Len(result.val.leaves_path[1]) :
          \E j \in 1..Len(result.val.leaves_path[2]) :
              result.val.leaves_path[1][i] = result.val.leaves_path[2][j]

\* C24: the terminal height.  On the empty tree for any key k, and on a
\* tree whose only bound key is k, merkle_proof([k]) returns an empty proof
\* and leaves_path equal to [[8 * N - 1]].
C24_TerminalHeight ==
    (/\ op.name = "merkle_proof"
     /\ Len(op.keys) = 1
     /\ bound_keys \subseteq {op.keys[1]})
        => result = Ok(MerkleProof(<<<<BYTE_SIZE * Len(op.keys[1]) - 1>>>>, <<>>))

\* the proof of the only bound key of a tree, after three updates
C24_Witness ==
    /\ op.name = "merkle_proof"
    /\ Len(op.keys) = 1
    /\ bound_keys = {op.keys[1]}
    /\ nops = 3
    /\ result = Ok(MerkleProof(<<<<BYTE_SIZE * Len(op.keys[1]) - 1>>>>, <<>>))

\* C25: bottom-up ordering of the proof.  In every proof returned by
\* merkle_proof, the heights of successive proof entries do not decrease,
\* every height is smaller than 8 * N, every sibling digest is non-zero, and
\* leaves_path has one list per queried key.
C25_BottomUp ==
    (op.name = "merkle_proof" /\ result.ok) =>
        LET proof == result.val.proof
        IN /\ \A i \in 1..(Len(proof) - 1) : proof[i][2] <= proof[i + 1][2]
           /\ \A i \in 1..Len(proof) :
                 /\ proof[i][2] < BYTE_SIZE * Len(op.keys[1])
                 /\ ~is_zero(proof[i][1])
           /\ Len(result.val.leaves_path) = Len(op.keys)

\* a proof with two siblings at different heights, in a tree of three leaves
C25_Witness ==
    /\ op.name = "merkle_proof"
    /\ result.ok
    /\ Cardinality(DOMAIN leaves_map) = 3
    /\ Len(result.val.leaves_path) = Len(op.keys)
    /\ Len(result.val.proof) = 2
    /\ ~is_zero(result.val.proof[1][1])
    /\ result.val.proof[1][2] < result.val.proof[2][2]

\* the digest an ICS-23 verifier computes from the digest of a child and
\* the InnerOps above it: hash(prefix ++ child ++ suffix), one after another
RECURSIVE apply_inner_ops(_, _)
apply_inner_ops(path, child) ==
    IF path = <<>> THEN child
    ELSE apply_inner_ops(Tail(path),
                         IF Head(path).prefix # EmptyVec
                         THEN <<"node", Head(path).prefix[2], child>>
                         ELSE <<"node", child, Head(path).suffix[2]>>)

\* C26: the direction of each InnerOp.  In the ExistenceProof that convert
\* produces for key k, the InnerOp built from the proof entry (sibling, h)
\* has the sibling as prefix and an empty suffix when bit h of k is 1, and
\* an empty prefix and the sibling as suffix when bit h of k is 0; applying
\* the InnerOps in order to hash_leaf(k, v) gives the root.
C26_InnerOpDirection ==
    (op.name = "membership_proof" /\ result.ok) =>
        LET proof == merkle_proof(tree, <<op.key>>).val.proof
            ep == result.val.exist
        IN /\ Len(ep.path) = Len(proof)
           /\ \A i \in 1..Len(proof) :
                 IF get_bit(op.key, proof[i][2])
                 THEN /\ ep.path[i].prefix = <<"vec", proof[i][1]>>
                      /\ ep.path[i].suffix = <<"vec">>
                 ELSE /\ ep.path[i].prefix = <<"vec">>
                      /\ ep.path[i].suffix = <<"vec", proof[i][1]>>
           /\ apply_inner_ops(ep.path, hash_leaf(ep.key, ep.value)) = root

\* the existence proof of a key with a sibling on its left and, above it, a
\* sibling on its right
C26_Witness ==
    /\ op.name = "membership_proof"
    /\ result.ok
    /\ Len(result.val.exist.path) = 2
    /\ result.val.exist.path[1].prefix # EmptyVec
    /\ result.val.exist.path[2].suffix # EmptyVec
    /\ apply_inner_ops(result.val.exist.path,
                       hash_leaf(op.key, get(tree, op.key))) = root

\* the key cleared has the bits of key above height and no bit up to height
cleared_up_to(cleared, key, height) ==
    /\ Len(cleared) = Len(key)
    /\ \A i \in 0..(BYTE_SIZE * Len(key) - 1) :
          get_bit(cleared, i) = (i > height /\ get_bit(key, i))

C28_PaddedKeyRoundTrip ==
    /\ op.name = "try_from" =>
          IF Len(op.bytes) <= PadN THEN result.ok
          ELSE result = Err("KeyTooLarge")
    /\ op.name \in {"to_vec", "as_slice"} => result = op.bytes

\* a key shorter than N bytes that ends in the padding byte comes back from
\* as_slice
C28_Witness ==
    /\ op.name = "as_slice"
    /\ Len(op.bytes) \in 1..(PadN - 1)
    /\ op.bytes[Len(op.bytes)] = 255
    /\ op.key.padded # op.bytes
    /\ result = op.bytes

\* C29: the root is published last.  If a store operation fails during
\* update(k, v), update returns that error and the root of the tree is the
\* root it had before the call, although branches or leaves may have been
\* removed from or inserted into the store.
C29_RootPublishedLast ==
    (op.name = "update" /\ ~result.ok) =>
        /\ result = Err("Store")
        /\ root = pre.root

\* the update that rebinds a key of a tree of two leaves fails after it has
\* removed a branch and stored the new leaf: the store has changed, and the
\* root has not
C29_Witness ==
    /\ op.name = "update"
    /\ ~result.ok
    /\ Cardinality(DOMAIN pre.leaves_map) = 2
    /\ root = pre.root
    /\ ~MapHas(branches_map, root)
    /\ MapHas(leaves_map, hash_leaf(op.key, op.value))
    /\ ~MapHas(pre.leaves_map, hash_leaf(op.key, op.value))

\* the fork heights of the branches a walk has read never increase
never_increase(visited) ==
    \A i \in 1..(Len(visited) - 1) : visited[i] >= visited[i + 1]

\* the walk has ended at a leaf, a zero digest, a missing branch or a
\* self-loop
stopped_as_claimed ==
    \/ is_zero(result.node)
    \/ ~MapHas(branches_map, result.node)
    \/ MapHas(leaves_map, result.node)
    \/ result.stop = "self"

\* the walk of update has ended at a branch of the store, above which the
\* key forks from the keys below the branch
stopped_above ==
    /\ op.name = "update_loop"
    /\ result.stop = "above"
    /\ MapHas(branches_map, result.node)
    /\ result.height > branches_map[result.node].fork_height

\* the heights of the walks and of the queue of merkle_proof
turns_in_bounds ==
    /\ op.name \in {"get_loop", "update_loop"} => never_increase(result.visited)
    /\ op.name = "merkle_proof_loop" =>
          \A i \in 1..Len(result.queue) :
              result.queue[i].height <= BYTE_SIZE * Len(result.queue[i].key)

call_returns == (op.name \in Loops) ~> (op.name \in Loops /\ result.done)

\* C30: termination.  On every tree reachable from the empty tree by
\* updates, each call of update, get and merkle_proof terminates; the
\* walks of update and get read branches whose fork heights never increase
\* and stop at a leaf, a zero digest, a missing branch or a self-loop, and
\* merkle_proof processes each queued key at no more than 8 * N + 1 heights.
C30_Termination ==
    /\ call_returns
    /\ [](turns_in_bounds)
    /\ []((op.name \in {"get_loop", "update_loop"} /\ result.done)
            => stopped_as_claimed)

\* C30 as it holds: the walk of update also stops at a branch of the store
\* whose fork height is below the height at which the key forks from the
\* key of the branch.
C30_TerminationAbove ==
    /\ call_returns
    /\ [](turns_in_bounds)
    /\ []((op.name \in {"get_loop", "update_loop"} /\ result.done)
            => (stopped_as_claimed \/ stopped_above))

\* the walk of update has ended at an inner branch that is neither a leaf
\* nor a self-loop: the key forks from the two keys below it at a height
\* above its fork height
C30_Witness ==
    /\ op.name = "update_loop"
    /\ result.done
    /\ stopped_above
    /\ ~stopped_as_claimed
    /\ Len(result.visited) = 1

====
